---------------------------- MODULE Spec2Model ----------------------------
(***************************************************************************)
(* Order placement and fulfilment of the e-commerce backend:               *)
(* OrdersCrud (app/crud/orders.py) on top of ProductCrud                   *)
(* (app/crud/products.py) and the shipper token helpers.                   *)
(*                                                                         *)
(* The committed database is `variants` and `orders`.  A create_order call *)
(* runs in its own SQLAlchemy session: what it has read sits in the        *)
(* session's identity map (`idmap`), what it has changed is staged in the  *)
(* session and reaches the database only at session.commit().  The call   *)
(* is three steps, between which other requests run: the pricing pass up   *)
(* to session.flush(), create_order_detail, and session.commit().  The     *)
(* status transitions, delete_order and the catalog operations are one     *)
(* read-modify-commit each.                                                *)
(*                                                                         *)
(* Money is modelled in whole currency units.                              *)
(***************************************************************************)
EXTENDS Integers, Sequences, FiniteSets, TLC

\* ------------------------------------------------------------------ bounds
MaxVariants == 3        \* variant ids 1..MaxVariants; the last one starts absent
MaxLines == 2           \* order_items of a request: at most this many lines
MaxQuantity == 2        \* a line's quantity: 1..MaxQuantity
MaxOrders == 2          \* order ids handed out by the order table
MaxStock == 3           \* the initial stock of variant 1

\* ------------------------------------------------- the program's constants
\* shipper_token: int | None = None
NoToken == 0
\* product_id after ON DELETE SET NULL
NullId == 0
\* create_order's parameter SHIPPER_TOKEN_BASE
SHIPPER_TOKEN_BASE == 3
\* random.randint(1000, 9999)
TokenMin == 1000
TokenMax == 9999

VariantIds == 1..MaxVariants
OrderIds == 1..MaxOrders
Quantities == 1..MaxQuantity
Sessions == {1, 2}

\* class OrderStatus(Enum)
OrderStatus == {"pending", "confirmed", "shipped", "delivered", "canceled"}
\* the order_status values the requests of the model carry
RequestStatus == {"pending", "delivered"}
\* the tokens the generator is seen to draw, and the ones a client presents
TokenValues == {TokenMin, TokenMax}
GivenTokens == {NoToken, TokenMin, TokenMax}

\* OrderDetailCreate: product_variant_id, quantity (gt 0)
OrderDetailCreate == [product_variant_id : VariantIds, quantity : Quantities]
RECURSIVE SeqsUpTo(_, _)
SeqsUpTo(S, n) ==
    IF n = 0 THEN {<< >>}
    ELSE LET shorter == SeqsUpTo(S, n - 1)
         IN  shorter \cup {Append(s, x) : s \in {t \in shorter : Len(t) = n - 1}, x \in S}
\* the lines whole requests are built from: in stock, beyond stock, unknown variant
CreateLines ==
    {[product_variant_id |-> 1, quantity |-> 1], [product_variant_id |-> 1, quantity |-> 2],
     [product_variant_id |-> 2, quantity |-> 1], [product_variant_id |-> 2, quantity |-> 2],
     [product_variant_id |-> MaxVariants, quantity |-> 1]}
\* OrderCreate.order_items
OrderItems == SeqsUpTo(CreateLines, MaxLines)
\* single-line requests
OneLine == SeqsUpTo(OrderDetailCreate, 1)
\* the requests the status workflow starts from: no line, a total above
\* SHIPPER_TOKEN_BASE, a total below it
FlowItems ==
    {<< >>, <<[product_variant_id |-> 1, quantity |-> 2]>>,
     <<[product_variant_id |-> 2, quantity |-> 1]>>}

\* the requests the stock ledger is followed over: two lines that both fit, two
\* lines of which the second does not, one line each of the two variants
LedgerItems ==
    {<<[product_variant_id |-> 1, quantity |-> 1], [product_variant_id |-> 2, quantity |-> 1]>>,
     <<[product_variant_id |-> 1, quantity |-> 2], [product_variant_id |-> 2, quantity |-> 2]>>,
     <<[product_variant_id |-> 1, quantity |-> 2]>>,
     <<[product_variant_id |-> 2, quantity |-> 1]>>}

VARIABLES
    variants,     \* table productvariant: variant_id -> [stock, price]
    orders,       \* table order with its orderdetail rows: order_id -> row
    nextOrderId,  \* the order table's id sequence
    sess,         \* per session: the create_order call in flight
    last          \* the last status/delete call: what was asked, what came back

vars == <<variants, orders, nextOrderId, sess, last>>

Idle ==
    [pc |-> "idle", items |-> << >>, status |-> "pending",
     idmap |-> << >>, total |-> 0, token |-> NoToken, order_id |-> 0,
     details |-> << >>, result |-> "none", error_id |-> 0]

NoCall == [op |-> "none", id |-> 0, token |-> NoToken, result |-> "none", error_id |-> 0]

\* the catalog the runs start from: variant 1 well stocked, the others with one
\* unit, the last id not in the table
InitialStock(v) == IF v = 1 THEN MaxStock ELSE 1
InitialPrice(v) == IF v = 1 THEN 2 ELSE 1

Init ==
    /\ variants = [v \in 1..(MaxVariants - 1) |->
                      [stock |-> InitialStock(v), price |-> InitialPrice(v)]]
    /\ orders = << >>
    /\ nextOrderId = 1
    /\ sess = [p \in Sessions |-> Idle]
    /\ last = NoCall

\* ------------------------------------------------------------ pure helpers
\* substract_product without its stock check
HasStockUnchecked(stock, quantity) == TRUE

\* a stock check that turns away a request for all that is left
HasStockStrict(stock, quantity) == stock > quantity

\* substract_product: `if variant.stock < quantity_substracted: raise`
HasStock(stock, quantity) == ~(stock < quantity)

\* a subtotal that forgets the quantity
SubtotalUnitPrice(quantity, unit_price) == unit_price

\* create_order: `item_subtotal = item.quantity * unit_price`
Subtotal(quantity, unit_price) == quantity * unit_price

\* the token decision with `<=` in place of `<`
IssuesTokenAtThreshold(base, total_order) == base <= total_order

\* create_order: `shipper_token_generator() if SHIPPER_TOKEN_BASE < total_order else None`
IssuesToken(base, total_order) == base < total_order

\* a generator that draws just outside the range
shipper_token_generatorWide == {TokenMin - 1, TokenMax + 1}

\* shipper_token_generator: random.randint(1000, 9999), seen through TokenValues
shipper_token_generator == TokenValues

\* a verification that accepts every token
verifyAnyToken(given_token, db_token) == TRUE

\* a verification that lets a missing token through
verifySkipsMissing(given_token, db_token) == given_token = NoToken \/ given_token = db_token

\* verify_shipper_token: `return given_token == db_token`
verify_shipper_token(given_token, db_token) == given_token = db_token

\* a session that reads every row afresh from the table
LoadFresh(idmap, v) ==
    [x \in DOMAIN idmap \cup {v} |-> IF x = v THEN variants[v] ELSE idmap[x]]

\* the identity map: a row already loaded is not read again
Load(idmap, v) == IF v \in DOMAIN idmap THEN idmap ELSE idmap @@ (v :> variants[v])

\* an orderdetail table without the constraint
UniqueLinesUnchecked(details) == TRUE

\* UniqueConstraint("order_id", "product_id") over the lines staged for one order
UniqueLines(details) ==
    \A a, b \in 1..Len(details) :
        a # b => details[a].product_id # details[b].product_id

\* a session that never rolls back: the stock it has staged reaches the table
rollbackKeepsStock(table, idmap) ==
    [v \in DOMAIN table |->
        IF v \in DOMAIN idmap THEN [table[v] EXCEPT !.stock = idmap[v].stock] ELSE table[v]]

\* session.rollback(): nothing the session has staged (idmap) reaches the table
rollback(table, idmap) == table

\* an `except` that raises an error which names nothing
FailAnonymous(p, s, error, error_id, idmap) ==
    /\ sess' = [sess EXCEPT ![p] = [s EXCEPT !.pc = "done", !.result = error]]
    /\ variants' = rollback(variants, idmap)
    /\ orders' = orders

\* create_order's `except Exception`: session.rollback(), then the error is raised
Fail(p, s, error, error_id, idmap) ==
    /\ sess' = [sess EXCEPT ![p] = [s EXCEPT !.pc = "done", !.result = error,
                                               !.error_id = error_id]]
    /\ variants' = rollback(variants, idmap)
    /\ orders' = orders

\* a first loop that resolves no variant: a line whose variant is missing adds
\* nothing to the total and is left for create_order_detail to reject
RECURSIVE PricePassUnresolved(_, _, _, _)
PricePassUnresolved(items, i, idmap, total_order) ==
    IF i > Len(items)
    THEN [error |-> "none", variant_id |-> 0, idmap |-> idmap, total_order |-> total_order]
    ELSE LET v == items[i].product_variant_id
         IN  IF v \notin DOMAIN variants
             THEN PricePassUnresolved(items, i + 1, idmap, total_order)
             ELSE LET m == Load(idmap, v)
                  IN  PricePassUnresolved(items, i + 1, m,
                                          total_order + Subtotal(items[i].quantity, m[v].price))

\* ------------------------------------------------------------ create_order
\* create_order's first loop from item i on: get_variant_info, then
\* total_order += item.quantity * unit_price
RECURSIVE PricePass(_, _, _, _)
PricePass(items, i, idmap, total_order) ==
    IF i > Len(items)
    THEN [error |-> "none", variant_id |-> 0, idmap |-> idmap, total_order |-> total_order]
    ELSE LET v == items[i].product_variant_id
         IN  IF v \notin DOMAIN variants
             THEN [error |-> "VariantNotFound", variant_id |-> v, idmap |-> idmap,
                   total_order |-> total_order]
             ELSE LET m == Load(idmap, v)
                  IN  PricePass(items, i + 1, m,
                                total_order + Subtotal(items[i].quantity, m[v].price))

\* a substract_product that takes one unit whatever the quantity
substract_productOneUnit(idmap, variant_id, quantity_substracted) ==
    IF variant_id \notin DOMAIN variants
    THEN [error |-> "VariantNotFound", variant_id |-> variant_id, idmap |-> idmap]
    ELSE LET m == Load(idmap, variant_id)
         IN  IF ~HasStock(m[variant_id].stock, quantity_substracted)
             THEN [error |-> "InsufficientStock", variant_id |-> variant_id, idmap |-> m]
             ELSE [error |-> "none", variant_id |-> 0,
                   idmap |-> [m EXCEPT ![variant_id].stock = @ - 1]]

\* substract_product: get_variant_info, the stock check, `variant.stock -=
\* quantity_substracted` on the session's row; the error carries variant_id
substract_product(idmap, variant_id, quantity_substracted) ==
    IF variant_id \notin DOMAIN variants
    THEN [error |-> "VariantNotFound", variant_id |-> variant_id, idmap |-> idmap]
    ELSE LET m == Load(idmap, variant_id)
         IN  IF ~HasStock(m[variant_id].stock, quantity_substracted)
             THEN [error |-> "InsufficientStock", variant_id |-> variant_id, idmap |-> m]
             ELSE [error |-> "none", variant_id |-> 0,
                   idmap |-> [m EXCEPT ![variant_id].stock = @ - quantity_substracted]]

\* create_order_detail's loop from item i on: get_variant_info, OrderDetail(...),
\* substract_product, session.add
RECURSIVE DetailPass(_, _, _, _)
DetailPass(items, i, idmap, details) ==
    IF i > Len(items)
    THEN [error |-> "none", variant_id |-> 0, idmap |-> idmap, details |-> details]
    ELSE LET v == items[i].product_variant_id
             quantity == items[i].quantity
         IN  IF v \notin DOMAIN variants
             THEN [error |-> "VariantNotFound", variant_id |-> v, idmap |-> idmap,
                   details |-> details]
             ELSE LET m == Load(idmap, v)
                      r == substract_product(m, v, quantity)
                  IN  IF r.error # "none"
                      THEN [error |-> r.error, variant_id |-> r.variant_id,
                            idmap |-> r.idmap, details |-> details]
                      ELSE DetailPass(items, i + 1, r.idmap,
                                      Append(details, [product_id |-> v, quantity |-> quantity,
                                                       price |-> m[v].price]))

\* a commit that writes no stock
DeductedNothing(details) == {}

\* the variants a call has deducted from
Deducted(details) == {details[k].product_id : k \in 1..Len(details)}

\* create_order up to session.refresh(order): the total, the token decision, the
\* order row flushed (not committed) under a fresh order_id
PriceOrder(p, items, status) ==
    /\ sess[p].pc = "idle"
    /\ nextOrderId <= MaxOrders
    /\ LET r == PricePass(items, 1, << >>, 0)
       IN  IF r.error # "none"
           THEN /\ Fail(p, [Idle EXCEPT !.items = items, !.status = status], r.error,
                     r.variant_id, r.idmap)
                /\ UNCHANGED nextOrderId
           ELSE /\ \E t \in (IF IssuesToken(SHIPPER_TOKEN_BASE, r.total_order)
                             THEN shipper_token_generator ELSE {NoToken}) :
                       sess' = [sess EXCEPT ![p] =
                                   [Idle EXCEPT !.pc = "details", !.items = items,
                                                !.status = status, !.idmap = r.idmap,
                                                !.total = r.total_order, !.token = t,
                                                !.order_id = nextOrderId]]
                /\ nextOrderId' = nextOrderId + 1
                /\ UNCHANGED <<variants, orders>>
    /\ UNCHANGED last

\* create_order_detail(session, order_id, order_create.order_items)
CreateOrderDetail(p) ==
    LET s == sess[p]
        r == DetailPass(s.items, 1, s.idmap, << >>)
    IN  /\ s.pc = "details"
        /\ IF r.error # "none"
           THEN Fail(p, s, r.error, r.variant_id, r.idmap)
           ELSE /\ sess' = [sess EXCEPT ![p].pc = "commit", ![p].idmap = r.idmap,
                                        ![p].details = r.details]
                /\ UNCHANGED <<variants, orders>>
        /\ UNCHANGED <<nextOrderId, last>>

\* session.commit(): the staged rows reach the database, or the flush fails
Commit(p) ==
    LET s == sess[p]
    IN  /\ s.pc = "commit"
        /\ IF ~UniqueLines(s.details)
           THEN Fail(p, s, "IntegrityError", 0, s.idmap)
           ELSE IF ~(Deducted(s.details) \subseteq DOMAIN variants)
           THEN Fail(p, s, "StaleData", 0, s.idmap)
           ELSE /\ variants' = [v \in DOMAIN variants |->
                                  IF v \in Deducted(s.details)
                                  THEN [variants[v] EXCEPT !.stock = s.idmap[v].stock]
                                  ELSE variants[v]]
                /\ orders' = orders @@ (s.order_id :>
                                  [order_status |-> s.status, total_order |-> s.total,
                                   shipper_token |-> s.token, details |-> s.details])
                /\ sess' = [sess EXCEPT ![p].pc = "done", ![p].result = "ok"]
        /\ UNCHANGED <<nextOrderId, last>>

\* the call has returned (or raised); the session is closed
Return(p) ==
    /\ sess[p].pc = "done"
    /\ sess' = [sess EXCEPT ![p] = Idle]
    /\ UNCHANGED <<variants, orders, nextOrderId, last>>

CreateOrder(p, requests, statuses) ==
    \/ \E items \in requests, status \in statuses : PriceOrder(p, items, status)
    \/ CreateOrderDetail(p)
    \/ Commit(p)
    \/ Return(p)

\* ------------------------------------------------------ status transitions
\* the units the lines of an order hold of variant v
RECURSIVE Sold(_, _)
Sold(details, v) ==
    IF details = << >> THEN 0
    ELSE (IF Head(details).product_id = v THEN Head(details).quantity ELSE 0)
         + Sold(Tail(details), v)

\* the call returned
Called(op, id, token, result) ==
    last' = [op |-> op, id |-> id, token |-> token, result |-> result, error_id |-> 0]

\* the call raised an error that names nothing
RaisedAnonymous(op, id, token, error, error_id) ==
    last' = [op |-> op, id |-> id, token |-> token, result |-> error, error_id |-> 0]

\* the call raised `error`, which carries error_id
Raised(op, id, token, error, error_id) ==
    last' = [op |-> op, id |-> id, token |-> token, result |-> error, error_id |-> error_id]

\* a setter that leaves delivered and canceled orders alone
SetStatusGuarded(op, order_id, status) ==
    /\ IF order_id \notin DOMAIN orders
       THEN /\ Raised(op, order_id, NoToken, "OrderNotFound", order_id)
            /\ UNCHANGED orders
       ELSE IF orders[order_id].order_status \in {"delivered", "canceled"}
       THEN /\ Raised(op, order_id, NoToken, "InvalidTransition", order_id)
            /\ UNCHANGED orders
       ELSE /\ orders' = [orders EXCEPT ![order_id].order_status = status]
            /\ Called(op, order_id, NoToken, "ok")
    /\ UNCHANGED <<variants, nextOrderId, sess>>

\* the body shared by confirm_order, start_shipping and cancel_order: session.get,
\* OrderNotFoundError, order_status = <status>, commit
SetStatus(op, order_id, status) ==
    /\ IF order_id \notin DOMAIN orders
       THEN /\ Raised(op, order_id, NoToken, "OrderNotFound", order_id)
            /\ UNCHANGED orders
       ELSE /\ orders' = [orders EXCEPT ![order_id].order_status = status]
            /\ Called(op, order_id, NoToken, "ok")
    /\ UNCHANGED <<variants, nextOrderId, sess>>

confirm_order(order_id) == SetStatus("confirm_order", order_id, "confirmed")

start_shipping(order_id) == SetStatus("start_shipping", order_id, "shipped")

\* a cancel_order that gives the lines' units back to the stock
cancel_orderRestoresStock(order_id) ==
    /\ IF order_id \notin DOMAIN orders
       THEN /\ Raised("cancel_order", order_id, NoToken, "OrderNotFound", order_id)
            /\ UNCHANGED <<orders, variants>>
       ELSE /\ orders' = [orders EXCEPT ![order_id].order_status = "canceled"]
            /\ variants' = [v \in DOMAIN variants |->
                               [variants[v] EXCEPT
                                   !.stock = @ + Sold(orders[order_id].details, v)]]
            /\ Called("cancel_order", order_id, NoToken, "ok")
    /\ UNCHANGED <<nextOrderId, sess>>

cancel_order(order_id) == SetStatus("cancel_order", order_id, "canceled")

\* a finish_shipping that verifies whether or not a token is stored
HasShipperTokenAlways(shipper_token) == TRUE

\* finish_shipping: `if shipper_token:` is Python truthiness, false for None
HasShipperToken(shipper_token) == shipper_token # NoToken

\* a finish_shipping that uses the stored token up
finish_shippingConsumes(order_id, token) ==
    /\ IF order_id \notin DOMAIN orders
       THEN /\ Raised("finish_shipping", order_id, token, "OrderNotFound", order_id)
            /\ UNCHANGED orders
       ELSE IF /\ HasShipperToken(orders[order_id].shipper_token)
               /\ ~verify_shipper_token(token, orders[order_id].shipper_token)
       THEN /\ Raised("finish_shipping", order_id, token, "InvalidShipperToken", token)
            /\ UNCHANGED orders
       ELSE /\ orders' = [orders EXCEPT ![order_id].order_status = "delivered",
                                        ![order_id].shipper_token = NoToken]
            /\ Called("finish_shipping", order_id, token, "ok")
    /\ UNCHANGED <<variants, nextOrderId, sess>>

finish_shipping(order_id, token) ==
    /\ IF order_id \notin DOMAIN orders
       THEN /\ Raised("finish_shipping", order_id, token, "OrderNotFound", order_id)
            /\ UNCHANGED orders
       ELSE IF /\ HasShipperToken(orders[order_id].shipper_token)
               /\ ~verify_shipper_token(token, orders[order_id].shipper_token)
       THEN /\ Raised("finish_shipping", order_id, token, "InvalidShipperToken", token)
            /\ UNCHANGED orders
       ELSE /\ orders' = [orders EXCEPT ![order_id].order_status = "delivered"]
            /\ Called("finish_shipping", order_id, token, "ok")
    /\ UNCHANGED <<variants, nextOrderId, sess>>

\* get_order_info's loop: get_variant_info(detail.product_id) raises for a line
\* whose variant is gone
OrderInfoError(order_id) ==
    IF \E k \in 1..Len(orders[order_id].details) :
           orders[order_id].details[k].product_id \notin DOMAIN variants
    THEN "VariantNotFound"
    ELSE "none"

\* the variant_id that error carries: the product_id of the first such line
OrderInfoErrorId(order_id) ==
    LET details == orders[order_id].details
        gone == {k \in 1..Len(details) : details[k].product_id \notin DOMAIN variants}
    IN  details[CHOOSE k \in gone : \A j \in gone : k <= j].product_id

\* a line's price as get_order_info would report it from the variant's row
DetailPriceFromVariant(detail, product_info) == product_info.price

\* get_order_info: `price=detail.price`
DetailPrice(detail, product_info) == detail.price

\* get_order_info: the order with its lines, or the error it raises
get_order_info(order_id) ==
    IF order_id \notin DOMAIN orders
    THEN [error |-> "OrderNotFound", order_details |-> << >>]
    ELSE IF OrderInfoError(order_id) # "none"
    THEN [error |-> OrderInfoError(order_id), order_details |-> << >>]
    ELSE [error |-> "none",
          order_details |->
              [k \in 1..Len(orders[order_id].details) |->
                  LET detail == orders[order_id].details[k]
                  IN  [quantity |-> detail.quantity,
                       price |-> DetailPrice(detail, variants[detail.product_id])]]]

\* a delete_order that gives the lines' units back to the stock
delete_orderRestoresStock(order_id) ==
    /\ IF order_id \notin DOMAIN orders
       THEN /\ Raised("delete_order", order_id, NoToken, "OrderNotFound", order_id)
            /\ UNCHANGED <<orders, variants>>
       ELSE /\ orders' = [o \in DOMAIN orders \ {order_id} |-> orders[o]]
            /\ variants' = [v \in DOMAIN variants |->
                               [variants[v] EXCEPT
                                   !.stock = @ + Sold(orders[order_id].details, v)]]
            /\ Called("delete_order", order_id, NoToken, "ok")
    /\ UNCHANGED <<nextOrderId, sess>>

\* delete_order: session.get, get_order_info, session.delete(order_to_delete) with
\* its details (cascade_delete=True), commit
delete_order(order_id) ==
    /\ IF order_id \notin DOMAIN orders
       THEN /\ Raised("delete_order", order_id, NoToken, "OrderNotFound", order_id)
            /\ UNCHANGED orders
       ELSE IF OrderInfoError(order_id) # "none"
       THEN /\ Raised("delete_order", order_id, NoToken, OrderInfoError(order_id),
                   OrderInfoErrorId(order_id))
            /\ UNCHANGED orders
       ELSE /\ orders' = [o \in DOMAIN orders \ {order_id} |-> orders[o]]
            /\ Called("delete_order", order_id, NoToken, "ok")
    /\ UNCHANGED <<variants, nextOrderId, sess>>

\* ------------------------------------------------------------- the catalog
\* ProductVariantUpdate, the fields set in the request (stock: int, price: float)
VariantUpdates == {[stock |-> -1], [price |-> 3]}

\* variant_to_update.sqlmodel_update(variant_update)
sqlmodel_update(row, variant_update) ==
    [f \in DOMAIN row |-> IF f \in DOMAIN variant_update THEN variant_update[f] ELSE row[f]]

update_product_variant(variant_id, variant_update) ==
    /\ IF variant_id \notin DOMAIN variants
       THEN /\ Raised("update_product_variant", variant_id, NoToken, "VariantNotFound", variant_id)
            /\ UNCHANGED variants
       ELSE /\ variants' = [variants EXCEPT
                               ![variant_id] = sqlmodel_update(variants[variant_id], variant_update)]
            /\ Called("update_product_variant", variant_id, NoToken, "ok")
    /\ UNCHANGED <<orders, nextOrderId, sess>>

\* OrderDetail.product_id: foreign key with ondelete="SET NULL"
SetNull(details, variant_id) ==
    [k \in 1..Len(details) |->
        IF details[k].product_id = variant_id
        THEN [details[k] EXCEPT !.product_id = NullId]
        ELSE details[k]]

delete_product_variant(variant_id) ==
    /\ IF variant_id \notin DOMAIN variants
       THEN /\ Raised("delete_product_variant", variant_id, NoToken, "VariantNotFound", variant_id)
            /\ UNCHANGED <<variants, orders>>
       ELSE /\ variants' = [v \in DOMAIN variants \ {variant_id} |-> variants[v]]
            /\ orders' = [o \in DOMAIN orders |->
                             [orders[o] EXCEPT !.details = SetNull(orders[o].details, variant_id)]]
            /\ Called("delete_product_variant", variant_id, NoToken, "ok")
    /\ UNCHANGED <<nextOrderId, sess>>

\* ProductVariantCreate: size, color, quantity, price
VariantCreates == {[quantity |-> 1, price |-> 3]}

\* ProductVariant(**product_variant.model_dump(), ...): the table's columns that
\* the request's fields name; a key that is no column is dropped
ProductVariantRow(product_variant) ==
    [f \in {"stock", "price"} \cap DOMAIN product_variant |-> product_variant[f]]

\* create_product_variant: the INSERT, and on IntegrityError (stock is NOT NULL,
\* (product_id, size, color) is unique) the update of the existing variant
create_product_variant(variant_id, product_variant) ==
    LET variant_db == ProductVariantRow(product_variant)
    IN  /\ IF "stock" \in DOMAIN variant_db /\ variant_id \notin DOMAIN variants
           THEN /\ variants' = variants @@ (variant_id :> variant_db)
                /\ Called("create_product_variant", variant_id, NoToken, "ok")
           ELSE IF variant_id \notin DOMAIN variants
           THEN /\ Raised("create_product_variant", variant_id, NoToken, "NoResultFound", 0)
                /\ UNCHANGED variants
           ELSE IF "stock" \notin DOMAIN variant_db
           THEN /\ Raised("create_product_variant", variant_id, NoToken, "TypeError", 0)
                /\ UNCHANGED variants
           ELSE /\ variants' = [variants EXCEPT
                                   ![variant_id].stock = @ + variant_db.stock,
                                   ![variant_id].price = variant_db.price]
                /\ Called("create_product_variant", variant_id, NoToken, "ok")
        /\ UNCHANGED <<orders, nextOrderId, sess>>

\* ---------------------------------------------------------- specifications
\* create_order alone, one call at a time, over multi-line requests
NextCreate == CreateOrder(1, OrderItems, {"pending"})

SpecCreate == Init /\ [][NextCreate]_vars

\* the order workflow: one create_order call in flight at a time, any status
\* transition or delete_order between its steps
NextOrders ==
    \/ CreateOrder(1, FlowItems, RequestStatus)
    \/ \E order_id \in OrderIds : confirm_order(order_id)
    \/ \E order_id \in OrderIds : start_shipping(order_id)
    \/ \E order_id \in OrderIds, token \in GivenTokens : finish_shipping(order_id, token)
    \/ \E order_id \in OrderIds : cancel_order(order_id)
    \/ \E order_id \in OrderIds : delete_order(order_id)

Spec == Init /\ [][NextOrders]_vars

\* orders placed and moved through their statuses, none deleted, the catalog
\* left alone
NextLedger ==
    \/ CreateOrder(1, LedgerItems, {"pending"})
    \/ \E order_id \in OrderIds : confirm_order(order_id)
    \/ \E order_id \in OrderIds : start_shipping(order_id)
    \/ \E order_id \in OrderIds, token \in GivenTokens : finish_shipping(order_id, token)
    \/ \E order_id \in OrderIds : cancel_order(order_id)

SpecLedger == Init /\ [][NextLedger]_vars

\* the workflow next to the catalog's variant operations
NextCatalog ==
    \/ CreateOrder(1, OneLine, {"pending"})
    \/ \E order_id \in OrderIds : delete_order(order_id)
    \/ \E variant_id \in VariantIds, variant_update \in VariantUpdates :
           update_product_variant(variant_id, variant_update)
    \/ \E variant_id \in VariantIds : delete_product_variant(variant_id)
    \/ \E variant_id \in VariantIds, product_variant \in VariantCreates :
           create_product_variant(variant_id, product_variant)

SpecCatalog == Init /\ [][NextCatalog]_vars

\* orders placed while the catalog's prices and stocks are edited
NextPrice ==
    \/ CreateOrder(1, FlowItems, {"pending"})
    \/ \E variant_id \in VariantIds, variant_update \in VariantUpdates :
           update_product_variant(variant_id, variant_update)
    \/ \E variant_id \in VariantIds, product_variant \in VariantCreates :
           create_product_variant(variant_id, product_variant)

SpecPrice == Init /\ [][NextPrice]_vars

\* two create_order calls in flight at once
NextConc == \E p \in Sessions : CreateOrder(p, OneLine, {"pending"})

SpecConc == Init /\ [][NextConc]_vars

\* ------------------------------------------------------------------ claims
\* a create_order call of session p ends (returns or raises) in this step
Finishes(p) == sess[p].pc # "done" /\ sess'[p].pc = "done"

\* some line asks for more units than its variant's committed stock
ShortLine(items) ==
    \E k \in 1..Len(items) :
        /\ items[k].product_variant_id \in DOMAIN variants
        /\ items[k].quantity > variants[items[k].product_variant_id].stock

\* some line names a variant that is not in the table
MissingLine(items) ==
    \E k \in 1..Len(items) : items[k].product_variant_id \notin DOMAIN variants

\* the units the lines of a request ask of variant v
RECURSIVE Requested(_, _)
Requested(items, v) ==
    IF items = << >> THEN 0
    ELSE (IF Head(items).product_variant_id = v THEN Head(items).quantity ELSE 0)
         + Requested(Tail(items), v)

\* this step is a call of the status/delete/catalog operation `op`
IsCall(op) == sess' = sess /\ last'.op = op

\* C1 (as amended): a create_order call whose request has a line asking for more
\* than the variant's stock fails with InsufficientStock, or with VariantNotFound
\* when some line names a variant that does not exist; the failing step and every
\* step of the call before it leave every stock and every order row and line as
\* they were.
C1_Atomicity ==
    [][\A p \in Sessions :
          /\ (sess'[p] # sess[p] /\ sess'[p].result # "ok")
                => (variants' = variants /\ orders' = orders)
          /\ (Finishes(p) /\ ShortLine(sess'[p].items))
                => /\ sess'[p].result \in {"InsufficientStock", "VariantNotFound"}
                   /\ sess'[p].result = "VariantNotFound" => MissingLine(sess'[p].items)
                   /\ sess'[p].order_id \notin DOMAIN orders']_vars

\* C1 witness: a two-line call failed with InsufficientStock on its second line,
\* after the first line's deduction had been staged
C1_Witness ==
    \E p \in Sessions :
        LET s == sess[p]
        IN  /\ s.pc = "done" /\ s.result = "InsufficientStock"
            /\ Len(s.items) = 2
            /\ s.items[1].product_variant_id # s.items[2].product_variant_id
            /\ s.items[1].product_variant_id \in DOMAIN variants
            /\ s.items[1].quantity <= variants[s.items[1].product_variant_id].stock
            /\ s.items[2].product_variant_id \in DOMAIN variants
            /\ s.items[2].quantity > variants[s.items[2].product_variant_id].stock
            /\ s.order_id \notin DOMAIN orders

\* C1 as stated: every call with a short line fails with InsufficientStock and
\* changes nothing
C1_Original ==
    [][\A p \in Sessions :
          (Finishes(p) /\ ShortLine(sess'[p].items))
             => /\ sess'[p].result = "InsufficientStock"
                /\ variants' = variants /\ orders' = orders]_vars

\* C2: whatever the interleaving of concurrent create_order calls, no variant's
\* committed stock is below 0.
C2_NonNegativeUnderConcurrency ==
    \A v \in DOMAIN variants : variants[v].stock >= 0

\* C2 witness: two calls that raced on one variant both committed, asking together
\* for more than the variant had
C2_Witness ==
    \E v \in DOMAIN variants :
        /\ \A p \in Sessions : sess[p].pc = "done" /\ sess[p].result = "ok"
        /\ \A p \in Sessions : Requested(sess[p].items, v) > 0
        /\ Requested(sess[1].items, v) + Requested(sess[2].items, v) > InitialStock(v)

\* C3 as stated: when two concurrent create_order calls both succeed, every
\* variant's stock is its initial stock minus the quantities of both requests
C3_NoLostUpdate ==
    (\A p \in Sessions : sess[p].pc = "done" /\ sess[p].result = "ok")
        => \A v \in DOMAIN variants :
              variants[v].stock = InitialStock(v) - Requested(sess[1].items, v)
                                                  - Requested(sess[2].items, v)

\* C4 as stated: after any sequence of operations that touch a variant, every
\* variant's stock is >= 0
C4_StockInvariant ==
    \A v \in VariantIds : v \in DOMAIN variants => ~(variants[v].stock < 0)

C6_TokenRoundTrip ==
    [][\A o \in DOMAIN orders :
          (IsCall("finish_shipping") /\ last'.id = o /\ orders[o].shipper_token # NoToken)
             => IF last'.token = orders[o].shipper_token
                THEN last'.result = "ok" /\ orders'[o].order_status = "delivered"
                ELSE last'.result = "InvalidShipperToken" /\ orders' = orders]_vars

\* C6 witness: finish_shipping was just called with the stored token of a tokened
\* order, and the order is delivered
C6_Witness ==
    /\ last.op = "finish_shipping" /\ last.result = "ok"
    /\ last.id \in DOMAIN orders
    /\ last.token \in TokenMin..TokenMax
    /\ orders[last.id].shipper_token = last.token
    /\ orders[last.id].order_status = "delivered"

\* C7: for an order with a stored shipper token, finish_shipping without a token
\* fails with InvalidShipperToken and leaves the order's status unchanged.
C7_TokenRequired ==
    [][\A o \in DOMAIN orders :
          (/\ IsCall("finish_shipping") /\ last'.id = o
           /\ last'.token = NoToken /\ orders[o].shipper_token # NoToken)
             => /\ last'.result = "InvalidShipperToken"
                /\ orders'[o].order_status = orders[o].order_status]_vars

\* C7 witness: finish_shipping without a token was just refused on a tokened order
\* that is on its way
C7_Witness ==
    /\ last.op = "finish_shipping" /\ last.result = "InvalidShipperToken"
    /\ last.token = NoToken
    /\ last.id \in DOMAIN orders
    /\ orders[last.id].shipper_token \in TokenMin..TokenMax
    /\ orders[last.id].order_status = "shipped"

\* C8 as stated: an order with a stored token gets the status delivered only by a
\* finish_shipping call that supplies the stored token
C8_DeliveredOnlyVerified ==
    [][\A o \in DOMAIN orders' :
          (/\ orders'[o].shipper_token # NoToken
           /\ orders'[o].order_status = "delivered"
           /\ (o \in DOMAIN orders => orders[o].order_status # "delivered"))
             => /\ IsCall("finish_shipping") /\ last'.id = o /\ last'.result = "ok"
                /\ last'.token = orders'[o].shipper_token]_vars

\* C9 as stated: the order a successful create_order persists has the status
\* pending when the call returns
C9_CreatedPending ==
    [][\A p \in Sessions :
          (Finishes(p) /\ sess'[p].result = "ok")
             => orders'[sess'[p].order_id].order_status = "pending"]_vars

\* C10 as stated: once an order is delivered or canceled, no call changes its
\* status again
C10_TerminalStates ==
    [][\A o \in DOMAIN orders :
          (orders[o].order_status \in {"delivered", "canceled"} /\ o \in DOMAIN orders')
             => orders'[o].order_status = orders[o].order_status]_vars

\* the place of a status on the path pending < confirmed < shipped < delivered
StatusRank(status) ==
    CASE status = "pending" -> 1
      [] status = "confirmed" -> 2
      [] status = "shipped" -> 3
      [] status = "delivered" -> 4
      [] OTHER -> 0

\* C11 as stated: no step takes a non-canceled order's status backward on the path
\* pending < confirmed < shipped < delivered
C11_ForwardOnly ==
    [][\A o \in DOMAIN orders :
          (/\ o \in DOMAIN orders'
           /\ orders[o].order_status # "canceled"
           /\ orders'[o].order_status # "canceled")
             => StatusRank(orders'[o].order_status) >= StatusRank(orders[o].order_status)]_vars

\* C12: a variant update or a variant upsert leaves the unit price stored on every
\* line of every order as it was, and get_order_info returns that stored price.
C12_PriceSnapshot ==
    [][(IsCall("update_product_variant") \/ IsCall("create_product_variant"))
          => \A o \in DOMAIN orders :
                /\ o \in DOMAIN orders'
                /\ get_order_info(o)'.error = "none"
                /\ \A k \in 1..Len(orders[o].details) :
                      /\ orders'[o].details[k].price = orders[o].details[k].price
                      /\ get_order_info(o)'.order_details[k].price
                            = orders[o].details[k].price]_vars

\* C12 witness: the price of a variant was just changed by an update, and an order
\* line for that variant still carries the price it was sold at
C12_Witness ==
    /\ last.op = "update_product_variant" /\ last.result = "ok"
    /\ \E o \in DOMAIN orders : \E k \in 1..Len(orders[o].details) :
          /\ orders[o].details[k].product_id = last.id
          /\ variants[last.id].price # orders[o].details[k].price
          /\ get_order_info(o).order_details[k].price = orders[o].details[k].price

\* the sum over the lines of a request of quantity times the variant's price
RECURSIVE LineSum(_)
LineSum(items) ==
    IF items = << >> THEN 0
    ELSE Head(items).quantity * variants[Head(items).product_variant_id].price
         + LineSum(Tail(items))

\* C13: the total stored on the order a create_order call persists is the sum over
\* the request's lines of quantity times the variant's price.
C13_TotalComputation ==
    [][\A p \in Sessions :
          (Finishes(p) /\ sess'[p].result = "ok")
             => orders'[sess'[p].order_id].total_order = LineSum(sess'[p].items)]_vars

\* C13 witness: a persisted two-line order, one line of two units and one of one
\* unit at different prices, with the total of both
C13_Witness ==
    \E p \in Sessions :
        LET s == sess[p]
        IN  /\ s.pc = "done" /\ s.result = "ok"
            /\ Len(s.items) = 2
            /\ s.items[1].quantity = 2 /\ s.items[2].quantity = 1
            /\ s.order_id \in DOMAIN orders
            /\ orders[s.order_id].total_order
                  = 2 * InitialPrice(s.items[1].product_variant_id)
                    + InitialPrice(s.items[2].product_variant_id)
            /\ InitialPrice(s.items[1].product_variant_id)
                  # InitialPrice(s.items[2].product_variant_id)

\* every line names a variant of the table and asks for no more than its stock
WithinStock(items) ==
    \A k \in 1..Len(items) :
        /\ items[k].product_variant_id \in DOMAIN variants
        /\ items[k].quantity <= variants[items[k].product_variant_id].stock

\* no two lines name the same variant
DistinctLines(items) ==
    \A a, b \in 1..Len(items) :
        a # b => items[a].product_variant_id # items[b].product_variant_id

\* the call of session p has persisted one order with one line per request line,
\* taken each line's quantity off its variant and left the other stocks alone
CreatedAsRequested(p) ==
    LET s == sess'[p]
    IN  /\ s.result = "ok"
        /\ DOMAIN orders' = DOMAIN orders \cup {s.order_id}
        /\ s.order_id \notin DOMAIN orders
        /\ Len(orders'[s.order_id].details) = Len(s.items)
        /\ \A k \in 1..Len(s.items) :
              /\ orders'[s.order_id].details[k].product_id = s.items[k].product_variant_id
              /\ orders'[s.order_id].details[k].quantity = s.items[k].quantity
        /\ DOMAIN variants' = DOMAIN variants
        /\ \A v \in DOMAIN variants :
              variants'[v].stock = variants[v].stock - Requested(s.items, v)

C15_LedgerDeduct ==
    \A v \in DOMAIN variants, quantity \in Quantities :
        LET r == substract_product(<< >>, v, quantity)
        IN  IF variants[v].stock >= quantity
            THEN /\ r.error = "none"
                 /\ r.idmap[v].stock = variants[v].stock - quantity
                 /\ (variants[v].stock = quantity => r.idmap[v].stock = 0)
            ELSE /\ r.error = "InsufficientStock"
                 /\ r.variant_id = v
                 /\ r.idmap[v].stock = variants[v].stock

\* C15 witness: a variant sold down to exactly 0 by an earlier order, and a call
\* asking for it again refused with InsufficientStock carrying its id
C15_Witness ==
    \E p \in Sessions :
        LET s == sess[p]
        IN  /\ s.pc = "done" /\ s.result = "InsufficientStock"
            /\ s.error_id \in DOMAIN variants
            /\ variants[s.error_id].stock = 0
            /\ \E o \in DOMAIN orders : \E k \in 1..Len(orders[o].details) :
                  /\ orders[o].details[k].product_id = s.error_id
                  /\ orders[o].details[k].quantity = InitialStock(s.error_id)

\* the variant id of the first line that names a variant missing from the table
FirstMissing(items) ==
    LET missing == {k \in 1..Len(items) : items[k].product_variant_id \notin DOMAIN variants}
    IN  items[CHOOSE k \in missing : \A j \in missing : k <= j].product_variant_id

\* C16: a create_order call whose request has a line naming a variant that does
\* not exist fails with VariantNotFound carrying that variant's id, in its first
\* step, and no order row, no line and no stock has changed.
C16_MissingVariant ==
    [][\A p \in Sessions :
          (Finishes(p) /\ MissingLine(sess'[p].items))
             => /\ sess[p].pc = "idle"
                /\ sess'[p].result = "VariantNotFound"
                /\ sess'[p].error_id = FirstMissing(sess'[p].items)
                /\ variants' = variants /\ orders' = orders]_vars

\* C16 witness: a call whose first line was in stock and whose second line names
\* a missing variant failed with VariantNotFound carrying the second line's id
C16_Witness ==
    \E p \in Sessions :
        LET s == sess[p]
        IN  /\ s.pc = "done" /\ s.result = "VariantNotFound"
            /\ Len(s.items) = 2
            /\ s.items[1].product_variant_id \in DOMAIN variants
            /\ s.items[1].quantity <= variants[s.items[1].product_variant_id].stock
            /\ s.items[2].product_variant_id \notin DOMAIN variants
            /\ s.error_id = s.items[2].product_variant_id
            /\ orders = << >>

\* the operations that first load the order by its id
OrderOps == {"confirm_order", "start_shipping", "finish_shipping", "cancel_order",
             "delete_order"}

\* C17: confirm_order, start_shipping, finish_shipping, cancel_order and
\* delete_order called with an order id that is not in the table each fail with
\* OrderNotFound carrying that id and leave every order, line and stock unchanged.
C17_OrderNotFound ==
    [][\A op \in OrderOps :
          (IsCall(op) /\ last'.id \notin DOMAIN orders)
             => /\ last'.result = "OrderNotFound"
                /\ last'.error_id = last'.id
                /\ orders' = orders /\ variants' = variants]_vars

\* C17 witness: next to an existing order, finish_shipping was called with a token
\* for an id that is not in the table and failed with OrderNotFound carrying the id
C17_Witness ==
    /\ last.op = "finish_shipping" /\ last.result = "OrderNotFound"
    /\ last.token # NoToken
    /\ last.id \notin DOMAIN orders /\ last.error_id = last.id
    /\ orders # << >>

\* C18: for an order stored without a shipper token, finish_shipping sets the
\* status to delivered whether or not a token is given and whatever its value.
C18_NoTokenStored ==
    [][\A o \in DOMAIN orders :
          (IsCall("finish_shipping") /\ last'.id = o /\ orders[o].shipper_token = NoToken)
             => /\ last'.result = "ok"
                /\ orders'[o].order_status = "delivered"]_vars

\* C18 witness: finish_shipping was just called with some token on an order at or
\* below the threshold, which has none, and the order is delivered
C18_Witness ==
    /\ last.op = "finish_shipping" /\ last.result = "ok"
    /\ last.token # NoToken
    /\ last.id \in DOMAIN orders
    /\ orders[last.id].shipper_token = NoToken
    /\ orders[last.id].total_order <= SHIPPER_TOKEN_BASE
    /\ orders[last.id].order_status = "delivered"

\* the status transitions
StatusOps == {"confirm_order", "start_shipping", "finish_shipping", "cancel_order"}

\* C19: no status transition, finish_shipping refused or not, changes an order's
\* total, its stored shipper token or its lines.
C19_ImmutableAfterCreation ==
    [][\A op \in StatusOps :
          IsCall(op)
             => \A o \in DOMAIN orders :
                   /\ o \in DOMAIN orders'
                   /\ orders'[o].total_order = orders[o].total_order
                   /\ orders'[o].shipper_token = orders[o].shipper_token
                   /\ orders'[o].details = orders[o].details]_vars

\* C19 witness: an order was delivered by finish_shipping with its
\* token, and still carries the token, its total and its line
C19_Witness ==
    /\ last.op = "finish_shipping" /\ last.result = "ok"
    /\ last.id \in DOMAIN orders
    /\ orders[last.id].order_status = "delivered"
    /\ orders[last.id].shipper_token # NoToken
    /\ orders[last.id].shipper_token = last.token
    /\ orders[last.id].total_order > SHIPPER_TOKEN_BASE
    /\ Len(orders[last.id].details) = 1
    /\ orders[last.id].total_order
          = orders[last.id].details[1].quantity * orders[last.id].details[1].price

\* C20: in every reachable state every order's stored shipper token is absent or
\* an integer in 1000..9999, bounds included.
C20_TokenRange ==
    \A o \in DOMAIN orders :
        orders[o].shipper_token = NoToken \/ orders[o].shipper_token \in 1000..9999

\* C20 witness: an order carrying the largest token next to an order without one
C20_Witness ==
    \E a, b \in DOMAIN orders :
        /\ orders[a].shipper_token = 9999
        /\ orders[b].shipper_token = NoToken

C22_CancelKeepsStock ==
    [][\A o \in DOMAIN orders :
          (IsCall("cancel_order") /\ last'.id = o)
             => /\ last'.result = "ok"
                /\ orders'[o].order_status = "canceled"
                /\ orders'[o].details = orders[o].details
                /\ variants' = variants]_vars

\* C22 witness: an order with a line was just canceled, and the line's units are
\* still off the variant's stock
C22_Witness ==
    /\ last.op = "cancel_order" /\ last.result = "ok"
    /\ last.id \in DOMAIN orders
    /\ orders[last.id].order_status = "canceled"
    /\ Len(orders[last.id].details) = 1
    /\ LET detail == orders[last.id].details[1]
       IN  variants[detail.product_id].stock
              = InitialStock(detail.product_id) - detail.quantity

\* C23 as stated: a create_order call with an empty list of lines is rejected and
\* creates no order row
C23_EmptyRejected ==
    [][\A p \in Sessions :
          (Finishes(p) /\ sess'[p].items = << >>)
             => /\ sess'[p].result # "ok"
                /\ orders' = orders]_vars

\* the units the lines of the orders `ids` hold of variant v
RECURSIVE SoldIn(_, _)
SoldIn(ids, v) ==
    IF ids = {} THEN 0
    ELSE LET o == CHOOSE x \in ids : TRUE
         IN  Sold(orders[o].details, v) + SoldIn(ids \ {o}, v)

\* C24: with create_order calls one at a time, status transitions, no order
\* deleted and no catalog edit, every variant's initial stock is its current stock
\* plus the quantities of all persisted order lines that reference it.
C24_StockSoldConsistency ==
    \A v \in DOMAIN variants :
        InitialStock(v) = variants[v].stock + SoldIn(DOMAIN orders, v)

\* C24 witness: an order holding units of a variant was canceled, and a later call
\* for more than what is left of that variant failed
C24_Witness ==
    /\ sess[1].pc = "done" /\ sess[1].result = "InsufficientStock"
    /\ \E o \in DOMAIN orders :
          /\ orders[o].order_status = "canceled"
          /\ Sold(orders[o].details, sess[1].error_id) > 0
          /\ variants[sess[1].error_id].stock
                = InitialStock(sess[1].error_id) - Sold(orders[o].details, sess[1].error_id)

\* C25 as stated: create_product_variant for a variant that already exists adds no
\* record, adds the given quantity to the variant's stock and replaces its price
C25_Upsert ==
    [][\A v \in DOMAIN variants :
          (IsCall("create_product_variant") /\ last'.id = v)
             => /\ last'.result = "ok"
                /\ DOMAIN variants' = DOMAIN variants
                /\ \E product_variant \in VariantCreates :
                      /\ variants'[v].stock = variants[v].stock + product_variant.quantity
                      /\ variants'[v].price = product_variant.price]_vars

\* the status each unconditional setter leaves behind
SetterTarget(op) ==
    CASE op = "confirm_order" -> "confirmed"
      [] op = "start_shipping" -> "shipped"
      [] op = "cancel_order" -> "canceled"

\* C26: on an existing order in any status, confirm_order leaves confirmed,
\* start_shipping leaves shipped and cancel_order leaves canceled, changing
\* nothing else; applied to an order already in that status it changes nothing.
C26_UnconditionalSetters ==
    [][\A op \in {"confirm_order", "start_shipping", "cancel_order"} :
          \A o \in DOMAIN orders :
             (IsCall(op) /\ last'.id = o)
                => /\ last'.result = "ok"
                   /\ orders' = [orders EXCEPT ![o].order_status = SetterTarget(op)]
                   /\ orders[o].order_status = SetterTarget(op) => orders' = orders]_vars

\* C26 witness: an order that create_order stored as delivered is confirmed after
\* confirm_order
C26_Witness ==
    /\ last.op = "confirm_order" /\ last.result = "ok"
    /\ sess[1].pc = "done" /\ sess[1].result = "ok" /\ sess[1].status = "delivered"
    /\ sess[1].order_id = last.id
    /\ last.id \in DOMAIN orders
    /\ orders[last.id].order_status = "confirmed"

\* the sum over the lines of an order of quantity times the price on the line
RECURSIVE DetailSum(_)
DetailSum(details) ==
    IF details = << >> THEN 0
    ELSE Head(details).quantity * Head(details).price + DetailSum(Tail(details))

\* C27: in every reachable state, price changes between create_order's two passes
\* included, each persisted order's total is the sum over its lines of quantity
\* times the unit price on the line.
C27_TotalLineConsistency ==
    \A o \in DOMAIN orders : orders[o].total_order = DetailSum(orders[o].details)

\* C27 witness: while a create_order call was in flight the price of its variant
\* was changed; the order it persisted carries the earlier price on its line and
\* the total that goes with it
C27_Witness ==
    LET s == sess[1]
    IN  /\ s.pc = "done" /\ s.result = "ok"
        /\ last.op = "update_product_variant" /\ last.result = "ok"
        /\ Len(s.details) = 1
        /\ s.details[1].product_id = last.id
        /\ variants[last.id].price # s.details[1].price
        /\ orders[s.order_id].details = s.details
        /\ orders[s.order_id].total_order = s.details[1].quantity * s.details[1].price
        /\ nextOrderId = 2

\* C28: no order ever has two lines referencing the same variant, and a
\* create_order call whose request lists one variant in two lines fails, no step
\* of it having changed an order row, a line or a stock.
C28_OneLinePerVariant ==
    [][/\ \A o \in DOMAIN orders' :
             \A a, b \in 1..Len(orders'[o].details) :
                a # b => orders'[o].details[a].product_id # orders'[o].details[b].product_id
       /\ \A p \in Sessions :
             (sess'[p] # sess[p] /\ ~DistinctLines(sess'[p].items))
                => /\ variants' = variants /\ orders' = orders
                   /\ Finishes(p) => sess'[p].result # "ok"]_vars

\* C28 witness: a request with two lines of one unit each of a variant that had
\* enough for both failed at the commit, and nothing is left of it
C28_Witness ==
    LET s == sess[1]
    IN  /\ s.pc = "done" /\ s.result = "IntegrityError"
        /\ Len(s.items) = 2
        /\ s.items[1].product_variant_id = s.items[2].product_variant_id
        /\ s.items[1].quantity + s.items[2].quantity
              <= variants[s.items[1].product_variant_id].stock
        /\ variants[s.items[1].product_variant_id].stock
              = InitialStock(s.items[1].product_variant_id)
        /\ orders = << >>

\* C29 as stated: in every reachable state, those where a variant of one of the
\* order's lines was deleted from the catalog included, delete_order on an existing
\* order succeeds and removes the order with its lines
C29_DeleteAvailable ==
    [][\A o \in DOMAIN orders :
          (IsCall("delete_order") /\ last'.id = o)
             => /\ last'.result = "ok"
                /\ o \notin DOMAIN orders']_vars

\* C30: a create_order call whose request has both a line naming a missing variant
\* and a line asking for more than its variant's stock fails with VariantNotFound,
\* not InsufficientStock, whatever the order of the two lines: it fails in its
\* first step, before an order id is taken, with no order row and no stock changed.
C30_ErrorPrecedence ==
    [][\A p \in Sessions :
          (Finishes(p) /\ MissingLine(sess'[p].items) /\ ShortLine(sess'[p].items))
             => /\ sess'[p].result = "VariantNotFound"
                /\ sess'[p].result # "InsufficientStock"
                /\ sess[p].pc = "idle"
                /\ nextOrderId' = nextOrderId
                /\ variants' = variants /\ orders' = orders]_vars

\* C30 witness: a call whose first line asks for more than its variant's stock and
\* whose second line names a missing variant failed with VariantNotFound
C30_Witness ==
    \E p \in Sessions :
        LET s == sess[p]
        IN  /\ s.pc = "done" /\ s.result = "VariantNotFound"
            /\ Len(s.items) = 2
            /\ s.items[1].product_variant_id \in DOMAIN variants
            /\ s.items[1].quantity > variants[s.items[1].product_variant_id].stock
            /\ s.items[2].product_variant_id \notin DOMAIN variants

=============================================================================
